---- MODULE Spec2Model ----
(***************************************************************************)
(* Model of the cv-rs pixel-processing core: the Image constructors        *)
(* (src/src/image.rs) and the filters resize, sobel_edge_detection,        *)
(* threshold_binary and gaussian_blur (src/src/filters.rs).                *)
(*                                                                         *)
(* The filters are pure functions; Image::data_mut hands the caller the    *)
(* buffer itself, a Vec<u8> the caller can overwrite, shorten or extend.   *)
(* The state machine records the image the caller currently holds (img),   *)
(* the last call made with its arguments (call) and what that call         *)
(* produced (ret): either an image or the panic that ended it.  Buffers    *)
(* are 1-indexed sequences, so the byte at Rust offset k is data[k + 1].   *)
(***************************************************************************)
EXTENDS Integers, Sequences, FiniteSets

VARIABLES img, call, ret

vars == <<img, call, ret>>

(***************************************************************************)
(* Bounds of the model.                                                    *)
(***************************************************************************)
\* largest width / height of an image
MaxDim == 3
\* longest byte buffer: of a new image, or grown to through data_mut
MaxLen == 6
\* longest byte buffer of the images the Sobel specification starts from
MaxSobelLen == 9
\* largest new_width / new_height handed to resize
MaxNew == 4
\* largest ksize handed to gaussian_blur
MaxKSize == 3
\* largest integer upscale factor the replication property is stated for
MaxFactor == 2

\* largest value of a u8 sample
MaxByte == 255

\* sample values the buffers are drawn from
SampleVals == {0, MaxByte}
\* thresh and maxval arguments of threshold_binary
ThreshVals == {0, 100, MaxByte}
MaxVals == {7, MaxByte}
\* sample values of the images the Sobel specification starts from
FineVals == {0, 30, MaxByte}
\* sigma arguments of gaussian_blur, by their f32 literal
Sigmas == {"0.0", "0.1"}

Buffers == UNION {[1..n -> SampleVals] : n \in 0..MaxLen}

Backends == {"Cpu", "Simd", "Gpu"}
Algorithms == {"Nearest", "Bilinear", "Bicubic"}

(***************************************************************************)
(* Values.                                                                 *)
(***************************************************************************)
Image(fmt, width, height, data) ==
    [fmt |-> fmt, width |-> width, height |-> height, data |-> data]

NoImage == Image("None", 0, 0, <<>>)

\* a call that returned an image
Ok(image) == [kind |-> "ok", err |-> "", msg |-> "", img |-> image]

\* a call ended by a panic: err is what raised it, msg its message
Panic(err, msg) == [kind |-> "panic", err |-> err, msg |-> msg, img |-> NoImage]

NoRet == [kind |-> "none", err |-> "", msg |-> "", img |-> NoImage]

NoCall ==
    [op |-> "none", width |-> 0, height |-> 0, data |-> <<>>,
     new_width |-> 0, new_height |-> 0, backend |-> "", algorithm |-> "",
     thresh |-> 0, maxval |-> 0, ksize |-> 0, sigma |-> "", edit |-> ""]

Min(a, b) == IF a < b THEN a ELSE b
Abs(a) == IF a < 0 THEN -a ELSE a

RECURSIVE SumSeq(_)
SumSeq(s) == IF s = <<>> THEN 0 ELSE Head(s) + SumSeq(Tail(s))

(***************************************************************************)
(* image.rs: constructors                                                  *)
(***************************************************************************)
ImageGray_NoAssert(width, height, data) == Ok(Image("Gray", width, height, data))

ImageGray(width, height, data) ==
    IF Len(data) = width * height
    THEN Ok(Image("Gray", width, height, data))
    ELSE Panic("assert_eq", "assertion left == right failed")

ImageRgb(width, height, data) ==
    IF Len(data) = width * height * 3
    THEN Ok(Image("Rgb", width, height, data))
    ELSE Panic("assert_eq", "assertion left == right failed")

\* bytes per pixel of a format
Channels(fmt) == IF fmt = "Rgb" THEN 3 ELSE 1

(***************************************************************************)
(* filters.rs: resize                                                      *)
(***************************************************************************)
\* what one iteration (x, y) of the pixel loops of resize_nearest_cpu raises
NearestFault(image, new_width, new_height, x, y) ==
    IF new_width = 0 \/ new_height = 0
    THEN "divide_by_zero"
    ELSE LET src_x == (x * image.width) \div new_width
             src_y == (y * image.height) \div new_height
             ch == Channels(image.fmt)
             src_idx == (src_y * image.width + src_x) * ch
         IN  IF src_idx + ch > Len(image.data)
             THEN "index_out_of_bounds"
             ELSE "none"

NearestIters_Hoisted(new_width, new_height) ==
    {<<x, y>> : x \in 0..(IF new_width = 0 THEN 0 ELSE new_width - 1),
                y \in 0..(IF new_height = 0 THEN 0 ELSE new_height - 1)}

\* the iterations of for y in 0..new_height { for x in 0..new_width { .. } }
NearestIters(new_width, new_height) ==
    {<<x, y>> : x \in 0..(new_width - 1), y \in 0..(new_height - 1)}

\* the buffer the loops fill when no iteration panics
NearestData_OneChannel(image, new_width, new_height) ==
    LET ch == Channels(image.fmt)
    IN  [i \in 1..(new_width * new_height * ch) |->
            LET p == (i - 1) \div ch
                x == p % new_width
                y == p \div new_width
                src_x == (x * image.width) \div new_width
                src_y == (y * image.height) \div new_height
            IN  image.data[(src_y * image.width + src_x) * ch + 1]]

NearestData_NoScaleY(image, new_width, new_height) ==
    LET ch == Channels(image.fmt)
    IN  [i \in 1..(new_width * new_height * ch) |->
            LET p == (i - 1) \div ch
                c == (i - 1) % ch
                x == p % new_width
                y == p \div new_width
                src_x == (x * image.width) \div new_width
                src_y == Min(y, image.height - 1)
            IN  image.data[(src_y * image.width + src_x) * ch + c + 1]]

NearestData(image, new_width, new_height) ==
    LET ch == Channels(image.fmt)
    IN  [i \in 1..(new_width * new_height * ch) |->
            LET p == (i - 1) \div ch
                c == (i - 1) % ch
                x == p % new_width
                y == p \div new_width
                src_x == (x * image.width) \div new_width
                src_y == (y * image.height) \div new_height
            IN  image.data[(src_y * image.width + src_x) * ch + c + 1]]

resize_nearest_cpu(image, new_width, new_height) ==
    LET faulty == {p \in NearestIters(new_width, new_height) :
                      NearestFault(image, new_width, new_height, p[1], p[2]) # "none"}
        first == CHOOSE p \in faulty :
                    \A q \in faulty : p[2] < q[2] \/ (p[2] = q[2] /\ p[1] <= q[1])
    IN  IF faulty # {}
        THEN Panic(NearestFault(image, new_width, new_height, first[1], first[2]), "")
        ELSE IF image.fmt = "Gray"
             THEN ImageGray(new_width, new_height, NearestData(image, new_width, new_height))
             ELSE ImageRgb(new_width, new_height, NearestData(image, new_width, new_height))

resize_AllNearest(image, new_width, new_height, backend, algorithm) ==
    resize_nearest_cpu(image, new_width, new_height)

resize(image, new_width, new_height, backend, algorithm) ==
    CASE backend = "Cpu" /\ algorithm = "Nearest" ->
            resize_nearest_cpu(image, new_width, new_height)
      [] backend = "Cpu" /\ algorithm = "Bilinear" ->
            Panic("unimplemented", "Bilinear resize not implemented yet")
      [] backend = "Cpu" /\ algorithm = "Bicubic" ->
            Panic("unimplemented", "Bicubic resize not implemented yet")
      [] backend = "Simd" -> Panic("unimplemented", "SIMD resize not implemented yet")
      [] backend = "Gpu" -> Panic("unimplemented", "GPU resize not implemented yet")

(***************************************************************************)
(* filters.rs: sobel_edge_detection                                        *)
(*                                                                         *)
(* The sums are f32 in the code.  Every term is an integer of magnitude at *)
(* most 2 * 255 and there are at most nine of them, so every partial sum   *)
(* is an integer below 2^24 and the f32 arithmetic is exact: the model     *)
(* computes in integers.                                                   *)
(***************************************************************************)
gx_WrongSign == <<-1, 0, 1, -2, 0, 2, -1, 0, -1>>

gx == <<-1, 0, 1, -2, 0, 2, -1, 0, 1>>
gy == <<-1, -2, -1, 0, 0, 0, 1, 2, 1>>

\* the term that tap (kx, ky) adds to the sum of pixel (x, y) under kernel g;
\* a tap outside the image is skipped
SobelTap(width, height, data, x, y, kx, ky, g) ==
    LET ix == x + kx - 1
        iy == y + ky - 1
    IN  IF 0 <= ix /\ ix < width /\ 0 <= iy /\ iy < height
        THEN data[iy * width + ix + 1] * g[ky * 3 + kx + 1]
        ELSE 0

\* some tap inside the image reads past the end of the buffer: data[idx] panics
SobelFault(width, height, data) ==
    \E x \in 0..(width - 1), y \in 0..(height - 1), kx \in 0..2, ky \in 0..2 :
        LET ix == x + kx - 1
            iy == y + ky - 1
        IN  /\ 0 <= ix /\ ix < width /\ 0 <= iy /\ iy < height
            /\ iy * width + ix >= Len(data)

SobelSum(width, height, data, x, y, g) ==
    SumSeq([t \in 1..9 |->
               SobelTap(width, height, data, x, y, (t - 1) % 3, (t - 1) \div 3, g)])

\* mag.min(255.0) as u8
SobelMag_NoClamp(sx, sy) == (Abs(sx) + Abs(sy)) % (MaxByte + 1)

SobelMag(sx, sy) == Min(Abs(sx) + Abs(sy), MaxByte)

sobel_edge_detection(image) ==
    IF image.fmt # "Gray"
    THEN Panic("panic", "Sobel only implemented for grayscale images")
    ELSE LET width == image.width
             height == image.height
             out == [i \in 1..(width * height) |->
                        LET x == (i - 1) % width
                            y == (i - 1) \div width
                        IN  SobelMag(SobelSum(width, height, image.data, x, y, gx),
                                     SobelSum(width, height, image.data, x, y, gy))]
         IN  IF SobelFault(width, height, image.data)
             THEN Panic("index_out_of_bounds", "")
             ELSE ImageGray(width, height, out)

(***************************************************************************)
(* filters.rs: threshold_binary                                            *)
(***************************************************************************)
ThresholdSample_Ge(v, thresh, maxval) == IF v >= thresh THEN maxval ELSE 0

ThresholdSample(v, thresh, maxval) == IF v > thresh THEN maxval ELSE 0

threshold_binary_AnyFormat(image, thresh, maxval) ==
    Ok(Image(image.fmt, image.width, image.height,
             [i \in 1..Len(image.data) |-> ThresholdSample(image.data[i], thresh, maxval)]))

threshold_binary(image, thresh, maxval) ==
    IF image.fmt = "Gray"
    THEN ImageGray(image.width, image.height,
                   [i \in 1..Len(image.data) |->
                       ThresholdSample(image.data[i], thresh, maxval)])
    ELSE Panic("panic", "Binary threshold only for grayscale images")

(***************************************************************************)
(* filters.rs: gaussian_blur and convolve_1d                               *)
(*                                                                         *)
(* The kernel is f32.  The model covers the two sigma arguments whose      *)
(* kernels it can give exactly, and names each weight by its f32 value:    *)
(*   sigma = 0.0: the sample at i = 0 is exp(-0.0 / 0.0) = NaN, so the sum *)
(*     is NaN and every normalised weight is "nan";                        *)
(*   sigma = 0.1: the samples are exp(0) = 1 at i = 0, exp(-50) (about     *)
(*     1.9e-22, "eps") at |i| = 1 and exp(-200 or less), which underflows  *)
(*     to 0.0 ("zero"), beyond; their sum rounds to 1.0, so normalising    *)
(*     changes nothing.                                                    *)
(***************************************************************************)
GaussWeight(i, sigma) ==
    IF sigma = "0.0" THEN "nan"
    ELSE IF i = 0 THEN "one"
    ELSE IF Abs(i) = 1 THEN "eps"
    ELSE "zero"

\* for i in -k..=k, k = ksize / 2
GaussKernel(ksize, sigma) ==
    LET k == ksize \div 2
    IN  [j \in 1..(2 * k + 1) |-> GaussWeight(j - 1 - k, sigma)]

\* acc.clamp(0.0, 255.0) as u8 for the taps (pairs <<sample, weight>>) that are
\* in bounds.  A NaN weight makes acc NaN, which the cast turns into 0.  An
\* "eps" term is below 1e-19: added to a sum of 1.0 or more it is rounded
\* away, and alone it is truncated to 0 by the cast.
ConvolveSample(taps) ==
    IF \E t \in 1..Len(taps) : taps[t][2] = "nan"
    THEN 0
    ELSE Min(SumSeq([t \in 1..Len(taps) |->
                        IF taps[t][2] = "one" THEN taps[t][1] ELSE 0]),
             MaxByte)

\* the in-bounds taps of output sample (x, y), in kernel order
ConvolveTaps(width, height, data, kernel, horizontal, x, y) ==
    LET k == Len(kernel) \div 2
        ix(i) == IF horizontal THEN x + i - k ELSE x
        iy(i) == IF horizontal THEN y ELSE y + i - k
        inb == {i \in 0..(Len(kernel) - 1) :
                   ix(i) >= 0 /\ iy(i) >= 0 /\ ix(i) < width /\ iy(i) < height}
        RECURSIVE Collect(_)
        Collect(i) ==
            IF i >= Len(kernel) THEN <<>>
            ELSE (IF i \in inb
                  THEN <<(<<data[iy(i) * width + ix(i) + 1], kernel[i + 1]>>)>>
                  ELSE <<>>) \o Collect(i + 1)
    IN  Collect(0)

\* some tap inside the image reads past the end of the buffer: data[..] panics
ConvolveFault(width, height, data, kernel, horizontal) ==
    LET k == Len(kernel) \div 2
    IN  \E x \in 0..(width - 1), y \in 0..(height - 1), i \in 0..(Len(kernel) - 1) :
            LET ix == IF horizontal THEN x + i - k ELSE x
                iy == IF horizontal THEN y ELSE y + i - k
            IN  /\ ix >= 0 /\ iy >= 0 /\ ix < width /\ iy < height
                /\ iy * width + ix >= Len(data)

convolve_1d(image, kernel, horizontal) ==
    IF image.fmt = "Gray"
    THEN LET width == image.width
             height == image.height
             out == [p \in 1..(width * height) |->
                        ConvolveSample(ConvolveTaps(width, height, image.data, kernel,
                                                    horizontal, (p - 1) % width,
                                                    (p - 1) \div width))]
         IN  IF ConvolveFault(width, height, image.data, kernel, horizontal)
             THEN Panic("index_out_of_bounds", "")
             ELSE ImageGray(width, height, out)
    ELSE Panic("panic", "Only grayscale supported for gaussian_blur for now")

gaussian_blur(image, ksize, sigma) ==
    LET kernel == GaussKernel(ksize, sigma)
        tmp == convolve_1d(image, kernel, TRUE)
    IN  IF tmp.kind = "ok" THEN convolve_1d(tmp.img, kernel, FALSE) ELSE tmp

(***************************************************************************)
(* The state machine: one action per public function.  A run is a caller   *)
(* that makes an image (by a constructor or as an enum literal), edits its *)
(* buffer through data_mut any number of times, one elementary edit of the *)
(* Vec<u8> per step (clear, truncate and extend are runs of pops and       *)
(* pushes), and passes the image to one filter.  The filters are pure and  *)
(* leave their input alone, so a further call on the same image starts     *)
(* from the same inputs.                                                   *)
(***************************************************************************)
\* nothing has been called yet
Fresh == call.op = "none"

\* the caller holds an image a constructor has just returned
Constructed == call.op \in {"gray", "rgb"} /\ ret.kind = "ok"

\* the caller holds an image whose buffer it has edited through data_mut
Edited == call.op = "data_mut"

\* the caller holds an image it wrote as an enum literal
Written == call.op = "literal"

\* the caller holds an image it can pass to a filter
Held == Constructed \/ Written \/ Edited

\* what a caller can do to the Vec<u8> that data_mut returns: overwrite the
\* byte at an index, pop the last byte (nothing happens on an empty buffer),
\* push a byte (up to MaxLen bytes)
Edits(data) ==
    {[edit |-> "set", data |-> [data EXCEPT ![i + 1] = v]] :
        i \in 0..(Len(data) - 1), v \in SampleVals}
    \cup {[edit |-> "pop", data |-> SubSeq(data, 1, Len(data) - 1)]}
    \cup {[edit |-> "push", data |-> Append(data, v)] :
              v \in IF Len(data) < MaxLen THEN SampleVals ELSE {}}

Init ==
    /\ img = NoImage
    /\ call = NoCall
    /\ ret = NoRet

\* Image::gray(width, height, data): the caller holds the image it returns
Gray ==
    /\ Fresh
    /\ \E width \in 0..MaxDim, height \in 0..MaxDim, data \in Buffers :
        LET r == ImageGray(width, height, data)
        IN  /\ call' = [NoCall EXCEPT !.op = "gray", !.width = width,
                                      !.height = height, !.data = data]
            /\ ret' = r
            /\ img' = r.img

\* Image::rgb(width, height, data)
Rgb ==
    /\ Fresh
    /\ \E width \in 0..MaxDim, height \in 0..MaxDim, data \in Buffers :
        LET r == ImageRgb(width, height, data)
        IN  /\ call' = [NoCall EXCEPT !.op = "rgb", !.width = width,
                                      !.height = height, !.data = data]
            /\ ret' = r
            /\ img' = r.img

\* resize(&img, new_width, new_height, backend, algorithm)
Resize ==
    /\ Held
    /\ \E new_width \in 0..MaxNew, new_height \in 0..MaxNew,
          backend \in Backends, algorithm \in Algorithms :
        /\ call' = [NoCall EXCEPT !.op = "resize", !.new_width = new_width,
                                  !.new_height = new_height, !.backend = backend,
                                  !.algorithm = algorithm]
        /\ ret' = resize(img, new_width, new_height, backend, algorithm)
    /\ UNCHANGED img

\* sobel_edge_detection(&img)
Sobel ==
    /\ Held
    /\ call' = [NoCall EXCEPT !.op = "sobel"]
    /\ ret' = sobel_edge_detection(img)
    /\ UNCHANGED img

\* threshold_binary(&img, thresh, maxval)
Threshold ==
    /\ Held
    /\ \E thresh \in ThreshVals, maxval \in MaxVals :
        /\ call' = [NoCall EXCEPT !.op = "threshold", !.thresh = thresh,
                                  !.maxval = maxval]
        /\ ret' = threshold_binary(img, thresh, maxval)
    /\ UNCHANGED img

\* gaussian_blur(&img, ksize, sigma)
Blur ==
    /\ Held
    /\ \E ksize \in 0..MaxKSize, sigma \in Sigmas :
        /\ call' = [NoCall EXCEPT !.op = "blur", !.ksize = ksize, !.sigma = sigma]
        /\ ret' = gaussian_blur(img, ksize, sigma)
    /\ UNCHANGED img

\* Image::Gray { width, height, data } or Image::Rgb { .. } written as a
\* literal: the fields of an enum variant are public, and nothing checks the
\* buffer against the dimensions
Literal ==
    /\ Fresh
    /\ \E fmt \in {"Gray", "Rgb"}, width \in 0..MaxDim, height \in 0..MaxDim,
          data \in Buffers :
        /\ call' = [NoCall EXCEPT !.op = "literal", !.width = width,
                                  !.height = height, !.data = data]
        /\ img' = Image(fmt, width, height, data)
        /\ ret' = Ok(img')

\* img.data_mut() followed by one edit of the buffer it returns: width and
\* height stay as they are, whatever becomes of the buffer.  It can be called
\* again on the edited image
DataMut ==
    /\ Held
    /\ \E e \in Edits(img.data) :
        /\ call' = [NoCall EXCEPT !.op = "data_mut", !.edit = e.edit]
        /\ img' = [img EXCEPT !.data = e.data]
        /\ ret' = Ok(img')

Next == Gray \/ Rgb \/ Literal \/ DataMut \/ Resize \/ Sobel \/ Threshold \/ Blur

Spec == Init /\ [][Next]_vars

TypeOK ==
    /\ img.fmt \in {"None", "Gray", "Rgb"}
    /\ ret.kind \in {"none", "ok", "panic"}
    /\ Constructed => Len(img.data) = img.width * img.height * Channels(img.fmt)
    /\ ret.kind = "ok" =>
          Len(ret.img.data) = ret.img.width * ret.img.height * Channels(ret.img.fmt)
          \/ call.op \in {"data_mut", "literal"}

(***************************************************************************)
(* A second specification for the numeric Sobel properties: it starts in   *)
(* the state in which Image::gray has just returned a grayscale image of up *)
(* to MaxSobelLen samples from FineVals (so that pixels off the border,    *)
(* and magnitudes below and above the clamp, occur), lets the caller edit  *)
(* the buffer, and applies sobel_edge_detection to the image.              *)
(***************************************************************************)
InitSobel ==
    \E width \in 0..MaxDim, height \in 0..MaxDim :
        /\ width * height <= MaxSobelLen
        /\ \E data \in [1..(width * height) -> FineVals] :
            /\ call = [NoCall EXCEPT !.op = "gray", !.width = width,
                                     !.height = height, !.data = data]
            /\ ret = ImageGray(width, height, data)
            /\ img = ret.img

NextSobel == DataMut \/ Sobel

SpecSobel == InitSobel /\ [][NextSobel]_vars

(***************************************************************************)
(* Properties.                                                             *)
(***************************************************************************)
\* channel c of the pixel (x, y) of an image
Px(image, x, y, c) ==
    image.data[(y * image.width + x) * Channels(image.fmt) + c + 1]

\* the sample (x, y) of a grayscale image padded with zeros on every side
Padded(image, x, y) ==
    IF 0 <= x /\ x < image.width /\ 0 <= y /\ y < image.height
    THEN image.data[y * image.width + x + 1]
    ELSE 0

CpuNearest == call.op = "resize" /\ call.backend = "Cpu" /\ call.algorithm = "Nearest"

\* C1: Image::gray(width, height, data) returns the Gray image holding exactly
\* width, height and data if and only if len(data) = width * height, and
\* otherwise fails on its assertion; Image::rgb likewise with
\* len(data) = width * height * 3.
C1_ConstructorsCheckLength ==
    /\ call.op = "gray" =>
        /\ ret.kind = "ok" <=> Len(call.data) = call.width * call.height
        /\ ret.kind = "ok" => ret.img = Image("Gray", call.width, call.height, call.data)
        /\ ret.kind # "ok" => ret.kind = "panic" /\ ret.err = "assert_eq"
    /\ call.op = "rgb" =>
        /\ ret.kind = "ok" <=> Len(call.data) = call.width * call.height * 3
        /\ ret.kind = "ok" => ret.img = Image("Rgb", call.width, call.height, call.data)
        /\ ret.kind # "ok" => ret.kind = "panic" /\ ret.err = "assert_eq"

\* Image::gray has refused a non-empty buffer one byte short of width * height
C1_Witness ==
    /\ call.op = "gray"
    /\ call.width = 2 /\ call.height = 2 /\ Len(call.data) = 3
    /\ ret.kind = "panic"

\* C2: resize with any (backend, algorithm) other than (Cpu, Nearest) ends in
\* the "not implemented" failure and returns no image; only (Cpu, Nearest) can
\* return one.
C2_OnlyCpuNearestImplemented ==
    call.op = "resize" =>
        /\ ~(call.backend = "Cpu" /\ call.algorithm = "Nearest") =>
              ret.kind = "panic" /\ ret.err = "unimplemented"
        /\ ret.kind = "ok" => call.backend = "Cpu" /\ call.algorithm = "Nearest"

\* resize was asked for (Simd, Nearest) on a 2 x 2 image and did not return
C2_Witness ==
    /\ call.op = "resize" /\ call.backend = "Simd" /\ call.algorithm = "Nearest"
    /\ img.width = 2 /\ img.height = 2
    /\ call.new_width = 4 /\ call.new_height = 4
    /\ ret.kind = "panic" /\ ret.err = "unimplemented"

\* C3: for a source of width, height >= 1 and targets new_width, new_height >= 1,
\* (Cpu, Nearest) resize returns an image of the source's format and the target
\* dimensions in which every channel of pixel (x, y) is that channel of the source
\* pixel (floor(x * width / new_width), floor(y * height / new_height)).
C3_NearestFloorMapping ==
    (/\ CpuNearest
     /\ img.width >= 1 /\ img.height >= 1
     /\ call.new_width >= 1 /\ call.new_height >= 1) =>
        /\ ret.kind = "ok"
        /\ ret.img.fmt = img.fmt
        /\ ret.img.width = call.new_width
        /\ ret.img.height = call.new_height
        /\ Len(ret.img.data) = call.new_width * call.new_height * Channels(img.fmt)
        /\ \A x \in 0..(call.new_width - 1), y \in 0..(call.new_height - 1),
              c \in 0..(Channels(img.fmt) - 1) :
              Px(ret.img, x, y, c) =
                  Px(img, (x * img.width) \div call.new_width,
                          (y * img.height) \div call.new_height, c)

\* an Rgb row of two pixels with differing channels was stretched to three
C3_Witness ==
    /\ CpuNearest
    /\ img.fmt = "Rgb" /\ img.width = 2 /\ img.height = 1 /\ Len(img.data) = 6
    /\ img.data[1] # img.data[2] /\ img.data[1] # img.data[4]
    /\ call.new_width = 3 /\ call.new_height = 1
    /\ ret.kind = "ok"

\* C4: (Cpu, Nearest) resize to f * width by f * height, f >= 1, returns the
\* image in which pixel (x, y) is source pixel (x div f, y div f); for f = 1 the
\* returned buffer is the source buffer.
C4_IntegerUpscaleReplicates ==
    \A f \in 1..MaxFactor :
        (/\ CpuNearest
         /\ call.new_width = f * img.width
         /\ call.new_height = f * img.height) =>
            /\ ret.kind = "ok"
            /\ ret.img.fmt = img.fmt
            /\ ret.img.width = f * img.width
            /\ ret.img.height = f * img.height
            /\ \A x \in 0..(f * img.width - 1), y \in 0..(f * img.height - 1),
                  c \in 0..(Channels(img.fmt) - 1) :
                  Px(ret.img, x, y, c) = Px(img, x \div f, y \div f, c)
            /\ f = 1 => ret.img.data = img.data

\* a 2 x 2 grayscale image whose rows differ was doubled to 4 x 4
C4_Witness ==
    /\ CpuNearest
    /\ img.fmt = "Gray" /\ img.width = 2 /\ img.height = 2
    /\ img.data[1] # img.data[3] /\ img.data[1] # img.data[2]
    /\ call.new_width = 4 /\ call.new_height = 4
    /\ ret.kind = "ok"

\* all samples of a buffer have the same value
Uniform(data) == \A i, j \in 1..Len(data) : data[i] = data[j]

\* C5 as stated: Sobel of a uniform grayscale image is zero at every sample,
\* those on the border included.
C5_UniformAllZero ==
    (call.op = "sobel" /\ img.fmt = "Gray" /\ Uniform(img.data)) =>
        /\ ret.kind = "ok"
        /\ \A i \in 1..Len(ret.img.data) : ret.img.data[i] = 0

\* C5 amended: Sobel of a grayscale image whose samples are all equal returns
\* an image exactly when the buffer holds at least width * height samples (it
\* panics on the first read past a shorter one); the image has the same
\* dimensions and is zero at every sample that is not on the border
\* (1 <= x <= width - 2, 1 <= y <= height - 2), and at every sample when the
\* common value is 0.
C5_UniformInteriorZero ==
    (call.op = "sobel" /\ img.fmt = "Gray" /\ Uniform(img.data)) =>
        /\ ret.kind = "ok" <=> Len(img.data) >= img.width * img.height
        /\ ret.kind # "ok" => ret.kind = "panic" /\ ret.err = "index_out_of_bounds"
        /\ ret.kind = "ok" =>
            /\ ret.img.fmt = "Gray"
            /\ ret.img.width = img.width /\ ret.img.height = img.height
            /\ \A x \in 1..(img.width - 2), y \in 1..(img.height - 2) :
                  Px(ret.img, x, y, 0) = 0
            /\ (\A i \in 1..Len(img.data) : img.data[i] = 0) =>
                  \A i \in 1..Len(ret.img.data) : ret.img.data[i] = 0

\* Sobel of a uniform non-zero 3 x 3 image: zero at the centre, not at a corner
C5_Witness ==
    /\ call.op = "sobel" /\ img.fmt = "Gray"
    /\ img.width = 3 /\ img.height = 3 /\ Len(img.data) = 9
    /\ Uniform(img.data) /\ img.data[1] = 30
    /\ ret.kind = "ok"
    /\ ret.img.data[5] = 0
    /\ ret.img.data[1] # 0

\* C6: threshold_binary of a grayscale image returns a grayscale image of the
\* same dimensions whose sample i is maxval when input sample i is strictly
\* above thresh and 0 otherwise, whatever thresh and maxval are.
C6_ThresholdStrict ==
    (call.op = "threshold" /\ img.fmt = "Gray") =>
        /\ ret.kind = "ok"
        /\ ret.img.fmt = "Gray"
        /\ ret.img.width = img.width /\ ret.img.height = img.height
        /\ Len(ret.img.data) = Len(img.data)
        /\ \A i \in 1..Len(img.data) :
              ret.img.data[i] = IF img.data[i] > call.thresh THEN call.maxval ELSE 0

\* a sample equal to thresh was mapped to 0 next to one above thresh mapped to
\* a maxval below thresh
C6_Witness ==
    /\ call.op = "threshold" /\ img.fmt = "Gray"
    /\ call.thresh = 100 /\ call.maxval = 7
    /\ img.width = 2 /\ img.height = 2
    /\ img.data[1] = 0 /\ img.data[2] = MaxByte
    /\ ret.kind = "ok"
    /\ ret.img.data[1] = 0 /\ ret.img.data[2] = 7

\* a sample equal to a non-zero thresh was mapped to 0
C6_EqualWitness ==
    /\ call.op = "threshold" /\ img.fmt = "Gray"
    /\ call.thresh = MaxByte
    /\ ret.kind = "ok"
    /\ \E i \in 1..Len(img.data) : img.data[i] = MaxByte /\ ret.img.data[i] = 0

\* C7: sobel_edge_detection, threshold_binary and gaussian_blur of an Rgb image
\* panic with their invalid-operation message and return no image, whatever the
\* other arguments.
C7_GrayOnlyFiltersRejectRgb ==
    (call.op \in {"sobel", "threshold", "blur"} /\ img.fmt = "Rgb") =>
        /\ ret.kind = "panic"
        /\ ret.err = "panic"
        /\ ret.msg = (CASE call.op = "sobel" -> "Sobel only implemented for grayscale images"
                        [] call.op = "threshold" -> "Binary threshold only for grayscale images"
                        [] call.op = "blur" -> "Only grayscale supported for gaussian_blur for now")

\* threshold_binary was called on a non-empty Rgb image and panicked
C7_Witness ==
    /\ call.op = "threshold" /\ img.fmt = "Rgb"
    /\ img.width = 2 /\ img.height = 1
    /\ ret.kind = "panic"

\* C8 as stated: (Cpu, Nearest) resize to new_width = 0 or new_height = 0 fails
\* on the division by zero and returns no image.
C8_ZeroTargetPanics ==
    (CpuNearest /\ (call.new_width = 0 \/ call.new_height = 0)) =>
        ret.kind = "panic"

\* C8 amended: (Cpu, Nearest) resize to new_width = 0 or new_height = 0 runs no
\* iteration of the pixel loops, so it never divides, and returns the image of
\* the source's format with the target dimensions and an empty buffer.
C8_ZeroTargetReturnsEmpty ==
    (CpuNearest /\ (call.new_width = 0 \/ call.new_height = 0)) =>
        ret = Ok(Image(img.fmt, call.new_width, call.new_height, <<>>))

\* a non-empty image was resized to width 0, height 3 and an image came back
C8_Witness ==
    /\ CpuNearest
    /\ img.width = 2 /\ img.height = 2
    /\ call.new_width = 0 /\ call.new_height = 3
    /\ ret.kind = "ok"
    /\ ret.img.width = 0 /\ ret.img.height = 3 /\ ret.img.data = <<>>

\* C9: an image with width = 0 or height = 0 can be constructed, and every
\* filter applied to it (the grayscale filters to a Gray one, (Cpu, Nearest)
\* resize with any target to either format) returns an image.
C9_ZeroSizedSourceNeverPanics ==
    /\ (call.op \in {"gray", "rgb"} /\ Len(call.data) = 0
           /\ (call.width = 0 \/ call.height = 0)) => ret.kind = "ok"
    /\ (/\ img.fmt # "None"
        /\ img.width = 0 \/ img.height = 0
        /\ \/ call.op \in {"sobel", "threshold", "blur"} /\ img.fmt = "Gray"
           \/ CpuNearest) => ret.kind = "ok"

\* C10: Sobel of a grayscale image returns a grayscale image of the same
\* dimensions whose sample (x, y) is min(255, |sx| + |sy|), sx and sy being the
\* Gx and Gy sums over the zero-padded image; the centre of
\* [0,0,0, 0,255,255, 0,0,0] gets a magnitude above 200.
C10_SobelL1ZeroPadded ==
    (call.op = "sobel" /\ img.fmt = "Gray") =>
        /\ ret.kind = "ok"
        /\ ret.img.fmt = "Gray"
        /\ ret.img.width = img.width /\ ret.img.height = img.height
        /\ Len(ret.img.data) = img.width * img.height
        /\ \A x \in 0..(img.width - 1), y \in 0..(img.height - 1) :
              LET sx == (Padded(img, x + 1, y - 1) + 2 * Padded(img, x + 1, y)
                            + Padded(img, x + 1, y + 1))
                        - (Padded(img, x - 1, y - 1) + 2 * Padded(img, x - 1, y)
                            + Padded(img, x - 1, y + 1))
                  sy == (Padded(img, x - 1, y + 1) + 2 * Padded(img, x, y + 1)
                            + Padded(img, x + 1, y + 1))
                        - (Padded(img, x - 1, y - 1) + 2 * Padded(img, x, y - 1)
                            + Padded(img, x + 1, y - 1))
                  l1 == Abs(sx) + Abs(sy)
              IN  Px(ret.img, x, y, 0) = (IF l1 > 255 THEN 255 ELSE l1)
        /\ (img.width = 3 /\ img.height = 3
               /\ img.data = <<0, 0, 0, 0, 255, 255, 0, 0, 0>>) => ret.img.data[5] > 200

\* Sobel of [0,0,0, 0,255,255, 0,0,0]: the centre is clamped to 255
C10_Witness ==
    /\ call.op = "sobel"
    /\ img = Image("Gray", 3, 3, <<0, 0, 0, 0, 255, 255, 0, 0, 0>>)
    /\ ret.kind = "ok"
    /\ ret.img.data[5] = 255

\* Sobel left a magnitude below the clamp: 4 * 30 at the centre of a step of 30
C10_UnclampedWitness ==
    /\ call.op = "sobel"
    /\ img = Image("Gray", 3, 3, <<0, 30, 30, 0, 30, 30, 0, 30, 30>>)
    /\ ret.kind = "ok"
    /\ ret.img.data[5] = 120

(***************************************************************************)
(* The properties that an edit of the buffer's length breaks, restricted   *)
(* to images whose buffer still has the length the constructor checked.    *)
(***************************************************************************)
\* the buffer of the held image has the length its dimensions call for
WellFormed == Len(img.data) = img.width * img.height * Channels(img.fmt)

\* the floor mapping of C3 holds of every image whose buffer length matches
NearestFloorMappingWhenWellFormed == WellFormed => C3_NearestFloorMapping

\* the replication of C4 holds of every image whose buffer length matches
IntegerUpscaleWhenWellFormed == WellFormed => C4_IntegerUpscaleReplicates

\* the per-sample map of C6 holds of every image whose buffer length matches
ThresholdStrictWhenWellFormed == WellFormed => C6_ThresholdStrict

\* the Sobel formula of C10 holds of every image whose buffer length matches
SobelL1WhenWellFormed == WellFormed => C10_SobelL1ZeroPadded

====
